---- MODULE Spec2Model ----
(***************************************************************************)
(* A model of Tamashii: the UBI container (tamashii/ubi.py), the device    *)
(* image container (tamashii/device.py), the boot arguments                *)
(* (tamashii/boot.py), the record codec                                    *)
(* (tamashii/utilities.py) and the write driver (tamashii/__main__.py).    *)
(*                                                                         *)
(* Byte strings.  A Python bytes value is modelled as a run-length encoded *)
(* sequence of runs [k, f, o, n]: n bytes taken, from offset o, out of the *)
(* periodic repetition of a pattern.  The pattern of kind "b" is the one   *)
(* byte f[1]; the pattern of a record kind ("ech", "vih", "vtr", "dih") is *)
(* the encoding of a fixed-layout record whose field values are f, in the  *)
(* order of the record's FIELDS list; the pattern of kind "lit" is the     *)
(* four bytes of the big-endian word f[1]; the pattern of kind "env" is a  *)
(* U-Boot environment blob.  Runs are kept maximal, so two byte strings    *)
(* are equal exactly when their run sequences are equal.                   *)
(***************************************************************************)
EXTENDS Integers, Sequences, FiniteSets

VARIABLES data, ubi, ret, output, pc, dev, ops

vars == <<data, ubi, ret, output, pc, dev, ops>>

-----------------------------------------------------------------------------
(* Record layouts: the FIELDS lists, as <<name, width in bytes>>; a         *)
(* reserved (unnamed) field has the name "".                               *)

EraseCounterHeaderFields ==
    << <<"magic_signature", 4>>, <<"ubi_version", 1>>, <<"", 3>>,
       <<"erase_counter", 8>>, <<"volume_identifier_header_offset", 4>>,
       <<"data_offset", 4>>, <<"image_sequence", 4>>, <<"", 32>>,
       <<"header_crc32", 4>> >>

VolumeIdentifierHeaderFields ==
    << <<"magic_signature", 4>>, <<"ubi_version", 1>>, <<"volume_type", 1>>,
       <<"copy_flag", 1>>, <<"compatibility", 1>>, <<"volume_id", 4>>,
       <<"logical_erase_block_number", 4>>, <<"", 4>>, <<"data_size", 4>>,
       <<"used_erase_blocks", 4>>, <<"data_padding", 4>>,
       <<"data_crc32", 4>>, <<"", 4>>, <<"sequence_number", 8>>,
       <<"", 12>>, <<"header_crc32", 4>> >>

VolumeTableRecordFields ==
    << <<"reserved_physical_erase_blocks", 4>>, <<"alignment", 4>>,
       <<"data_padding", 4>>, <<"volume_type", 1>>, <<"update_marker", 1>>,
       <<"name_size", 2>>, <<"_name", 128>>, <<"flags", 1>>, <<"", 23>>,
       <<"record_crc32", 4>> >>

DeviceImageHeaderFields ==
    << <<"magic_signature", 4>>, <<"header_size", 4>>, <<"image_size", 4>>,
       <<"image_sha1", 20>> >>

RECURSIVE FieldsWidth(_)
FieldsWidth(fields) ==
    IF fields = <<>> THEN 0
    ELSE Head(fields)[2] + FieldsWidth(Tail(fields))

\* The four bytes "UBI#" and "UBI!" as big-endian words.
UBI_EC_HDR_MAGIC == 1430407459
UBI_VID_HDR_MAGIC == 1430407457

\* Length of the pattern of a run of kind k with fields f.
PatLen(k, f) ==
    CASE k = "b"   -> 1
      [] k = "lit" -> 4
      [] k = "ech" -> FieldsWidth(EraseCounterHeaderFields)
      [] k = "vih" -> FieldsWidth(VolumeIdentifierHeaderFields)
      [] k = "vtr" -> FieldsWidth(VolumeTableRecordFields)
      [] k = "dih" -> FieldsWidth(DeviceImageHeaderFields)
      [] k = "env" -> f[1]

-----------------------------------------------------------------------------
(* Python bytes operations on run-length encoded byte strings.             *)

Run(k, f, o, n) == [k |-> k, f |-> f, o |-> o, n |-> n]

\* b'\xVV' * n  (a non-positive count gives the empty string)
Fill(v, n) == IF n <= 0 THEN <<>> ELSE << Run("b", <<v>>, 0, n) >>

\* One whole record of kind k with field values f.
Token(k, f) == << Run(k, f, 0, PatLen(k, f)) >>

RECURSIVE BLen(_)
BLen(bs) == IF bs = <<>> THEN 0 ELSE Head(bs).n + BLen(Tail(bs))

Mergeable(a, b) ==
    /\ a.k = b.k
    /\ a.f = b.f
    /\ (a.o + a.n) % PatLen(a.k, a.f) = b.o

\* a + b
Concat(a, b) ==
    IF a = <<>> THEN b
    ELSE IF b = <<>> THEN a
    ELSE LET x == a[Len(a)]
             y == Head(b)
         IN  IF Mergeable(x, y)
             THEN SubSeq(a, 1, Len(a) - 1)
                    \o << Run(x.k, x.f, x.o, x.n + y.n) >> \o Tail(b)
             ELSE a \o b

\* b''.join(parts)
RECURSIVE Join(_)
Join(parts) ==
    IF parts = <<>> THEN <<>> ELSE Concat(Head(parts), Join(Tail(parts)))

\* The first m bytes, 0 <= m.
RECURSIVE Take(_, _)
Take(bs, m) ==
    IF m <= 0 \/ bs = <<>> THEN <<>>
    ELSE LET r == Head(bs)
         IN  IF r.n <= m THEN <<r>> \o Take(Tail(bs), m - r.n)
             ELSE << Run(r.k, r.f, r.o, m) >>

\* All but the first m bytes, 0 <= m.
RECURSIVE Drop(_, _)
Drop(bs, m) ==
    IF bs = <<>> THEN <<>>
    ELSE IF m <= 0 THEN bs
    ELSE LET r == Head(bs)
         IN  IF r.n <= m THEN Drop(Tail(bs), m - r.n)
             ELSE << Run(r.k, r.f, (r.o + m) % PatLen(r.k, r.f), r.n - m) >>
                    \o Tail(bs)

\* Python's index clamping for a slice bound i on a string of length len.
ClampIndex(i, len) ==
    LET j == IF i < 0 THEN i + len ELSE i
    IN  IF j < 0 THEN 0 ELSE IF j > len THEN len ELSE j

\* bs[i:j]
Slice(bs, i, j) ==
    LET len == BLen(bs)
        lo  == ClampIndex(i, len)
        hi  == ClampIndex(j, len)
    IN  IF hi <= lo THEN <<>> ELSE Take(Drop(bs, lo), hi - lo)

\* bs[:j] and bs[i:]
SliceTo(bs, j) == Slice(bs, 0, j)
SliceFrom(bs, i) == Slice(bs, i, BLen(bs))

-----------------------------------------------------------------------------
(* Checksums.  zlib's CRC-32 and SHA-1 are modelled by a 16-bit rolling    *)
(* checksum of the values that are hashed: equal inputs give equal         *)
(* checksums, and the inputs of this model give distinct ones.             *)

\* The element of a singleton.  Value({F(x) : x \in {e}}) is F(e) with e
\* evaluated once, as a local variable assigned once.
Value(S) == CHOOSE x \in S : TRUE

RECURSIVE Checksum(_, _)
Checksum(h, xs) ==
    IF xs = <<>> THEN h
    ELSE Value({Checksum(next, rest) :
                  next \in {(h * 31 + (Head(xs) % 65521) + 1) % 65536},
                  rest \in {Tail(xs)}})

\* generate_crc32(data) for data = the encoding of the field values xs
generate_crc32(xs) == Checksum(7, xs)

KindCode(k) ==
    CASE k = "b" -> 1 [] k = "lit" -> 2 [] k = "ech" -> 3 [] k = "vih" -> 4
      [] k = "vtr" -> 5 [] k = "dih" -> 6 [] k = "env" -> 7

RECURSIVE RunsChecksum(_, _)
RunsChecksum(h, bs) ==
    IF bs = <<>> THEN h
    ELSE Value({RunsChecksum(next, rest) :
                  next \in {Checksum(h, <<KindCode(Head(bs).k), Head(bs).o,
                                           Head(bs).n>> \o Head(bs).f)},
                  rest \in {Tail(bs)}})

\* SHA1(data).digest()
SHA1(bs) == RunsChecksum(11, bs)

-----------------------------------------------------------------------------
(* StreamStructure: the record codec.                                      *)

\* A failed read: bitstring raises when the position or the read runs past
\* the end of the buffer.
ReadError == [ok |-> FALSE]

\* The value of a w-byte big-endian word whose bytes all equal v.  Words
\* wider than two bytes that are not zero saturate at BigWord.
BigWord == 512 * 1024 * 1024

JunkWord(v, w) ==
    IF v = 0 THEN 0
    ELSE IF w = 1 THEN v
    ELSE IF w = 2 THEN v * 257
    ELSE BigWord

\* The field values read from bytes that do not hold a record of the kind
\* that is being read.
JunkFields(r, fields) ==
    [i \in 1..Len(fields) |->
        IF r.k = "b" THEN JunkWord(r.f[1], fields[i][2]) ELSE BigWord]

\* The field values read by StreamStructure.from_data with the stream at
\* byte position pos: [ok |-> TRUE, f |-> values] or ReadError.  Where the
\* bytes are the four bytes of a "lit" run followed by a run of equal
\* bytes, the first field is the run's word and the others are read from
\* the bytes that follow.
ReadFields(bs, pos, kind, fields) ==
    LET width == FieldsWidth(fields)
    IN  IF pos < 0 \/ pos + width > BLen(bs) THEN ReadError
        ELSE LET r == Head(Drop(bs, pos))
                 rest == Drop(bs, pos + 4)
             IN  IF r.k = kind /\ r.o = 0 /\ r.n >= width
                 THEN [ok |-> TRUE, f |-> r.f]
                 ELSE IF r.k = "lit" /\ r.o = 0 /\ fields[1][2] = 4
                         /\ Head(rest).k = "b"
                 THEN [ok |-> TRUE,
                       f |-> [i \in 1..Len(fields) |->
                                 IF i = 1 THEN r.f[1]
                                 ELSE JunkWord(Head(rest).f[1],
                                               fields[i][2])]]
                 ELSE [ok |-> TRUE, f |-> JunkFields(r, fields)]

FieldNames(fields) ==
    {fields[i][1] : i \in 1..Len(fields)} \ {""}

FieldIndex(fields, name) ==
    CHOOSE i \in 1..Len(fields) : fields[i][1] = name

\* StreamStructure.from_data: the object whose attributes are the named
\* fields (reserved fields are read and dropped).
FromFields(f, fields) ==
    [name \in FieldNames(fields) |-> f[FieldIndex(fields, name)]]

\* StreamStructure.to_bytes: the field values in FIELDS order, a reserved
\* field encoded as zero bytes.
ToFields(obj, fields) ==
    [i \in 1..Len(fields) |->
        IF fields[i][1] = "" THEN 0 ELSE obj[fields[i][1]]]

\* to_bytes()[:-4] of a record whose last field is its 4-byte CRC.
WithoutCrc(f) == SubSeq(f, 1, Len(f) - 1)


-----------------------------------------------------------------------------
(* EraseCounterHeader, VolumeIdentifierHeader, VolumeTableRecord.          *)

DYNAMIC == 1
STATIC == 2

\* get_header_crc32 / get_record_crc32: generate_crc32(self.to_bytes()[:-4])
get_header_crc32(h, fields) == generate_crc32(WithoutCrc(ToFields(h, fields)))

\* __init__ with header_crc32=None: the CRC is refreshed at construction.
refresh_header_crc32(h, fields) ==
    [h EXCEPT !.header_crc32 = get_header_crc32(h, fields)]

\* EraseCounterHeader(): every argument defaulted.
EraseCounterHeader ==
    refresh_header_crc32(
        [magic_signature |-> UBI_EC_HDR_MAGIC,
         ubi_version |-> 1,
         erase_counter |-> 0,
         volume_identifier_header_offset |-> 512,
         data_offset |-> 2048,
         image_sequence |-> 0,
         header_crc32 |-> 0],
        EraseCounterHeaderFields)

\* VolumeIdentifierHeader(volume_id=..., logical_erase_block_number=...)
VolumeIdentifierHeader(volume_id, logical_erase_block_number) ==
    refresh_header_crc32(
        [magic_signature |-> UBI_VID_HDR_MAGIC,
         ubi_version |-> 1,
         volume_type |-> DYNAMIC,
         copy_flag |-> 0,
         compatibility |-> 0,
         volume_id |-> volume_id,
         logical_erase_block_number |-> logical_erase_block_number,
         data_size |-> 0,
         used_erase_blocks |-> 0,
         data_padding |-> 0,
         data_crc32 |-> 0,
         sequence_number |-> 0,
         header_crc32 |-> 0],
        VolumeIdentifierHeaderFields)

EchIsMagicValid(h) == h.magic_signature = UBI_EC_HDR_MAGIC
EchIsHeaderValid(h) ==
    h.header_crc32 = get_header_crc32(h, EraseCounterHeaderFields)

VihIsMagicValid(h) == h.magic_signature = UBI_VID_HDR_MAGIC
VihIsHeaderValid(h) ==
    h.header_crc32 = get_header_crc32(h, VolumeIdentifierHeaderFields)

\* UBI reserves 4096 volume IDs for internal volumes.
UBI_INTERNAL_VOL_START == 2147483647 - 4096
VihIsInternal(h) == h.volume_id >= UBI_INTERNAL_VOL_START

\* VolumeTableRecord.from_data(stream, volume_id): the decoded fields plus
\* the slot index as volume_id.
VolumeTableRecord(f, volume_id) ==
    LET o == FromFields(f, VolumeTableRecordFields)
    IN  [name \in DOMAIN o \cup {"volume_id"} |->
            IF name = "volume_id" THEN volume_id ELSE o[name]]

\* The CRC stored in an empty volume-table slot (0xF116C36B): the CRC of a
\* record whose bytes are all zero.
EmptyRecordCrc32 == generate_crc32(<<0, 0, 0, 0, 0, 0, 0, 0, 0>>)


-----------------------------------------------------------------------------
(* PhysicalEraseBlock.  The optional vid_header is a sequence of length 0  *)
(* (None) or 1.                                                            *)

None == <<>>
Some(x) == <<x>>

PhysicalEraseBlock(block_id, erase_counter_header, volume_identifier_header, volume_table_records, raw, data_size, block_size) ==
    [block_id |-> block_id,
     erase_counter_header |-> erase_counter_header,
     volume_identifier_header |-> volume_identifier_header,
     volume_table_records |-> volume_table_records,
     _data |-> raw,
     data_size |-> data_size,
     block_size |-> block_size]

\* The volume table of an internal block: up to VTBL_SLOTS records read
\* from the start of the payload, empty slots skipped.
\* [ok |-> TRUE, v |-> records] or ReadError.
VTBL_SLOTS == 128

NotEmptySlot(record) == record.record_crc32 /= EmptyRecordCrc32

ReadVolumeTable(bs, position) ==
    LET width == FieldsWidth(VolumeTableRecordFields)
        rd(index) == ReadFields(bs, position + index * width, "vtr",
                                VolumeTableRecordFields)
    IN  IF \E index \in 0..(VTBL_SLOTS - 1) : ~rd(index).ok THEN ReadError
        ELSE [ok |-> TRUE,
              v |-> SelectSeq(
                        [i \in 1..VTBL_SLOTS |->
                            VolumeTableRecord(rd(i - 1).f, i - 1)],
                        NotEmptySlot)]

\* PhysicalEraseBlock.from_data(stream, block_id, block_size), the stream
\* at byte position start_position of bs.
\* [ok |-> TRUE, v |-> block] or ReadError.
PebFromData(bs, start_position, block_id, block_size) ==
    LET ec == ReadFields(bs, start_position, "ech", EraseCounterHeaderFields)
    IN  IF ~ec.ok THEN ReadError
        ELSE
        LET ec_header == FromFields(ec.f, EraseCounterHeaderFields)
            vid_position ==
                start_position + ec_header.volume_identifier_header_offset
            vid == ReadFields(bs, vid_position, "vih",
                              VolumeIdentifierHeaderFields)
        IN  IF ~vid.ok THEN ReadError
            ELSE
            LET vid_header == FromFields(vid.f, VolumeIdentifierHeaderFields)
                data_size == block_size - ec_header.data_offset
                data_position == start_position + ec_header.data_offset
                readable == /\ data_size >= 0
                            /\ data_position + data_size <= BLen(bs)
                raw == IF EchIsHeaderValid(ec_header)
                       THEN Slice(bs, data_position, data_position + data_size)
                       ELSE <<>>
                table == IF VihIsMagicValid(vid_header)
                            /\ VihIsInternal(vid_header)
                         THEN ReadVolumeTable(bs, data_position)
                         ELSE [ok |-> TRUE, v |-> <<>>]
            IN  IF EchIsHeaderValid(ec_header) /\ ~readable THEN ReadError
                ELSE IF ~table.ok THEN ReadError
                ELSE [ok |-> TRUE,
                      v |-> PhysicalEraseBlock(
                                block_id,
                                ec_header,
                                IF VihIsMagicValid(vid_header)
                                THEN Some(vid_header) ELSE None,
                                table.v,
                                raw,
                                data_size,
                                block_size)]

HasVidHeader(block) == block.volume_identifier_header /= None
VidHeader(block) == block.volume_identifier_header[1]

\* The data property.  VolumeTypeEnum(volume_type) raises ValueError for a
\* volume_type that is neither DYNAMIC nor STATIC: [ok |-> FALSE].
PebData(block) ==
    IF ~HasVidHeader(block) THEN [ok |-> TRUE, v |-> <<>>]
    ELSE LET vid_header == VidHeader(block)
         IN  IF vid_header.volume_type = DYNAMIC
             THEN [ok |-> TRUE, v |-> block._data]
             ELSE IF vid_header.volume_type = STATIC
             THEN [ok |-> TRUE,
                   v |-> SliceTo(block._data, vid_header.data_size)]
             ELSE [ok |-> FALSE]

\* A variant of PhysicalEraseBlock.to_bytes that emits the whole of _data
\* whatever the volume type.
PebToBytesRaw(block) ==
    LET ec_header == block.erase_counter_header
        r1 == Token("ech", ToFields(ec_header, EraseCounterHeaderFields))
        r2 == Concat(r1,
                  Fill(255, ec_header.volume_identifier_header_offset
                              - BLen(r1)))
        r3 == IF HasVidHeader(block)
              THEN Concat(r2, Token("vih", ToFields(VidHeader(block),
                                        VolumeIdentifierHeaderFields)))
              ELSE r2
        r4 == Concat(r3, Fill(255, ec_header.data_offset - BLen(r3)))
        r5 == Concat(r4, block._data)
    IN  [ok |-> TRUE,
         v |-> Concat(r5, Fill(255, block.block_size - BLen(r5)))]

\* PhysicalEraseBlock.to_bytes.  [ok |-> TRUE, v |-> bytes], or
\* [ok |-> FALSE] when the data property raises.
PebToBytes(block) ==
    LET ec_header == block.erase_counter_header
        r1 == Token("ech", ToFields(ec_header, EraseCounterHeaderFields))
        r2 == Concat(r1,
                  Fill(255, ec_header.volume_identifier_header_offset
                              - BLen(r1)))
        r3 == IF HasVidHeader(block)
              THEN Concat(r2, Token("vih", ToFields(VidHeader(block),
                                        VolumeIdentifierHeaderFields)))
              ELSE r2
        r4 == Concat(r3, Fill(255, ec_header.data_offset - BLen(r3)))
        d  == PebData(block)
    IN  IF ~d.ok THEN [ok |-> FALSE]
        ELSE LET r5 == Concat(r4, d.v)
             IN  [ok |-> TRUE,
                  v |-> Concat(r5, Fill(255, block.block_size - BLen(r5)))]


-----------------------------------------------------------------------------
(* Locating the UBI region.                                                *)

\* Whether the pattern of run r starts with the four bytes "UBI#".
HasEcMagic(r) ==
    /\ r.k \in {"ech", "lit"}
    /\ r.f[1] = UBI_EC_HDR_MAGIC

\* Offsets within run r (from an offset j on) where its pattern starts
\* and its first four bytes lie inside the run.
RECURSIVE RunMatches(_, _, _)
RunMatches(r, base, j) ==
    IF j + 4 > r.n THEN <<>>
    ELSE <<base + j>> \o RunMatches(r, base, j + PatLen(r.k, r.f))

\* [match.start() for match in finditer(b'UBI#', data)]
RECURSIVE Matches(_, _)
Matches(bs, base) ==
    IF bs = <<>> THEN <<>>
    ELSE LET r == Head(bs)
             p == PatLen(r.k, r.f)
             here == IF HasEcMagic(r)
                     THEN RunMatches(r, base, (p - r.o) % p)
                     ELSE <<>>
         IN  here \o Matches(Tail(bs), base + r.n)

\* has_physical_erase_block: search(b'UBI#', data) is not None
has_physical_erase_block(bs) == Matches(bs, 0) /= <<>>

\* offsets[offset] = offsets.get(offset, 0) + 1 on a dict kept as the
\* sequence of its items, in insertion order.
Tally(items, offset) ==
    IF \E i \in 1..Len(items) : items[i][1] = offset
    THEN [i \in 1..Len(items) |->
             IF items[i][1] = offset
             THEN <<offset, items[i][2] + 1>> ELSE items[i]]
    ELSE Append(items, <<offset, 1>>)

RECURSIVE TallyStrides(_, _, _)
TallyStrides(matches, index, items) ==
    IF index >= Len(matches) THEN items
    ELSE TallyStrides(matches, index + 1,
                      Tally(items, matches[index + 1] - matches[index]))

\* Insert x into xs (sorted by descending count) after every element
\* whose count is not smaller: one step of a stable sort.
RECURSIVE InsertByCount(_, _)
InsertByCount(xs, x) ==
    IF xs = <<>> THEN <<x>>
    ELSE IF x[2] > Head(xs)[2] THEN <<x>> \o xs
    ELSE <<Head(xs)>> \o InsertByCount(Tail(xs), x)

\* sorted(offsets.items(), key=lambda item: item[1], reverse=True)
RECURSIVE SortByCountDescending(_, _)
SortByCountDescending(items, acc) ==
    IF items = <<>> THEN acc
    ELSE SortByCountDescending(Tail(items), InsertByCount(acc, Head(items)))

get_physical_erase_block_sizes(bs) ==
    SortByCountDescending(TallyStrides(Matches(bs, 0), 1, <<>>), <<>>)

\* A variant of get_physical_erase_block_start that returns the first
\* match, whatever its distance to the next one.
FirstMatchStart(bs, size) ==
    LET matches == Matches(bs, 0)
    IN  IF Len(matches) < 2 THEN [ok |-> FALSE]
        ELSE [ok |-> TRUE, v |-> matches[1]]

\* get_physical_erase_block_start: the first match whose successor is
\* size bytes away ([ok |-> FALSE] stands for None).
get_physical_erase_block_start(bs, size) ==
    LET matches == Matches(bs, 0)
        hits == {i \in 1..(Len(matches) - 1) :
                    matches[i + 1] - matches[i] = size}
    IN  IF hits = {} THEN [ok |-> FALSE]
        ELSE [ok |-> TRUE,
              v |-> matches[CHOOSE i \in hits : \A j \in hits : i <= j]]

-----------------------------------------------------------------------------
(* UnsortedBlockImages.                                                    *)

UnsortedBlockImages(blocks, start_position, end_position, data_size, block_size) ==
    [blocks |-> blocks,
     start_position |-> start_position,
     end_position |-> end_position,
     data_size |-> data_size,
     block_size |-> block_size]

\* The loop of from_data that decodes block_count blocks.
RECURSIVE DecodeBlocks(_, _, _, _, _, _)
DecodeBlocks(bs, start_position, block_size, block_count, index, acc) ==
    IF index = block_count THEN [ok |-> TRUE, v |-> acc]
    ELSE LET block == PebFromData(bs, start_position + block_size * index,
                                  index, block_size)
         IN  IF ~block.ok THEN ReadError
             ELSE DecodeBlocks(bs, start_position, block_size, block_count,
                               index + 1, Append(acc, block.v))

\* UnsortedBlockImages.from_data(data): [ok |-> TRUE, v |-> container], or
\* [ok |-> FALSE] when it raises.
UbiFromData(bs) ==
    IF ~has_physical_erase_block(bs) THEN [ok |-> FALSE]
    ELSE
    LET block_sizes == get_physical_erase_block_sizes(bs)
    IN  IF Len(block_sizes) = 0 THEN [ok |-> FALSE]
        ELSE
        LET block_size == block_sizes[1][1]
            occurrences == block_sizes[1][2]
            block_count == occurrences + 1
            start_position == get_physical_erase_block_start(bs, block_size).v
            blocks == DecodeBlocks(bs, start_position, block_size,
                                   block_count, 0, <<>>)
            end_position == start_position + block_size * block_count
        IN  IF ~blocks.ok THEN [ok |-> FALSE]
            ELSE [ok |-> TRUE,
                  v |-> UnsortedBlockImages(blocks.v, start_position,
                            end_position, blocks.v[1].data_size, block_size)]


-----------------------------------------------------------------------------
(* LEB resolution.                                                         *)

RECURSIVE SeqMax(_)
SeqMax(xs) ==
    IF Len(xs) = 1 THEN xs[1]
    ELSE LET m == SeqMax(Tail(xs))
         IN  IF Head(xs) >= m THEN Head(xs) ELSE m

\* A variant of the filter below that keeps the blocks of every image
\* sequence.
SelectBlocksAnyImage(blocks, image_sequence) == blocks

RECURSIVE SelectBlocks(_, _)
SelectBlocks(blocks, image_sequence) ==
    IF blocks = <<>> THEN <<>>
    ELSE IF Head(blocks).erase_counter_header.image_sequence = image_sequence
    THEN <<Head(blocks)>> \o SelectBlocks(Tail(blocks), image_sequence)
    ELSE SelectBlocks(Tail(blocks), image_sequence)

\* The sort key (logical_erase_block_number, -sequence_number), compared
\* as Python compares tuples.
KeyLess(a, b) ==
    LET x == VidHeader(a)
        y == VidHeader(b)
    IN  \/ x.logical_erase_block_number < y.logical_erase_block_number
        \/ /\ x.logical_erase_block_number = y.logical_erase_block_number
           /\ (0 - x.sequence_number) < (0 - y.sequence_number)

\* Insert block into the sorted sequence xs after every element whose key
\* is not greater: one step of a stable sort.
RECURSIVE InsertByKey(_, _)
InsertByKey(xs, block) ==
    IF xs = <<>> THEN <<block>>
    ELSE IF KeyLess(block, Head(xs)) THEN <<block>> \o xs
    ELSE <<Head(xs)>> \o InsertByKey(Tail(xs), block)

\* sorted(filtered_blocks, key=...): Python's sort is stable.
RECURSIVE SortBlocks(_, _)
SortBlocks(blocks, acc) ==
    IF blocks = <<>> THEN acc
    ELSE SortBlocks(Tail(blocks), InsertByKey(acc, Head(blocks)))

\* The group_by loop: the first block of each run of equal leb_number.
GroupFirst(sorted_blocks) ==
    LET lebs == {VidHeader(sorted_blocks[i]).logical_erase_block_number :
                    i \in 1..Len(sorted_blocks)}
        first(leb) ==
            CHOOSE i \in 1..Len(sorted_blocks) :
                /\ VidHeader(sorted_blocks[i]).logical_erase_block_number = leb
                /\ \A j \in 1..(i - 1) :
                      VidHeader(sorted_blocks[j]).logical_erase_block_number
                          /= leb
    IN  [leb \in lebs |-> sorted_blocks[first(leb)]]

\* prepare_physical_erase_blocks(blocks): [ok |-> TRUE, v |-> the dict
\* leb_number -> block], or [ok |-> FALSE] when max() of an empty list
\* raises ValueError.
prepare_physical_erase_blocks(blocks) ==
    IF blocks = <<>> THEN [ok |-> FALSE]
    ELSE
    LET max_image_sequence ==
            SeqMax([i \in 1..Len(blocks) |->
                       blocks[i].erase_counter_header.image_sequence])
        filtered_blocks == SelectBlocks(blocks, max_image_sequence)
        sorted_blocks == SortBlocks(filtered_blocks, <<>>)
    IN  [ok |-> TRUE, v |-> GroupFirst(sorted_blocks)]

-----------------------------------------------------------------------------
(* Container operations.                                                   *)

InVolume(block, volume_id) ==
    /\ HasVidHeader(block)
    /\ VidHeader(block).volume_id = volume_id

RECURSIVE VolumeBlocks(_, _)
VolumeBlocks(blocks, volume_id) ==
    IF blocks = <<>> THEN <<>>
    ELSE IF InVolume(Head(blocks), volume_id)
    THEN <<Head(blocks)>> \o VolumeBlocks(Tail(blocks), volume_id)
    ELSE VolumeBlocks(Tail(blocks), volume_id)

get_logical_erase_blocks(u, volume_id) ==
    prepare_physical_erase_blocks(VolumeBlocks(u.blocks, volume_id))

RECURSIVE InternalBlocks(_)
InternalBlocks(blocks) ==
    IF blocks = <<>> THEN <<>>
    ELSE IF HasVidHeader(Head(blocks)) /\ VihIsInternal(VidHeader(Head(blocks)))
    THEN <<Head(blocks)>> \o InternalBlocks(Tail(blocks))
    ELSE InternalBlocks(Tail(blocks))

get_internal_volume_blocks(u) == InternalBlocks(u.blocks)

\* get_volume_table_records: [ok |-> TRUE, v |-> records], or
\* [ok |-> FALSE] when it raises RuntimeError.
get_volume_table_records(u) ==
    LET internal_blocks == get_internal_volume_blocks(u)
    IN  IF internal_blocks = <<>> THEN [ok |-> FALSE]
        ELSE IF internal_blocks[1].volume_table_records = <<>>
        THEN [ok |-> FALSE]
        ELSE [ok |-> TRUE, v |-> internal_blocks[1].volume_table_records]

\* get_free_blocks: the block_ids (0-based) of the blocks without a VIH,
\* ascending, as the dict is filled.
RECURSIVE FreeIds(_, _)
FreeIds(blocks, block_id) ==
    IF blocks = <<>> THEN <<>>
    ELSE IF HasVidHeader(Head(blocks))
    THEN FreeIds(Tail(blocks), block_id + 1)
    ELSE <<block_id>> \o FreeIds(Tail(blocks), block_id + 1)

get_free_blocks(u) == FreeIds(u.blocks, 0)

\* The block that delete_volume_blocks and put_volume_blocks build.
FreshBlock(block_id, vid_header, raw, old) ==
    PhysicalEraseBlock(block_id, EraseCounterHeader, vid_header, <<>>, raw,
                       old.data_size, old.block_size)

\* A variant of delete_volume_blocks whose new blocks keep the erase
\* counter header of the block they replace.
DeleteKeepingHeader(u, volume_id) ==
    [u EXCEPT !.blocks =
        [i \in 1..Len(u.blocks) |->
            IF InVolume(u.blocks[i], volume_id)
            THEN [FreshBlock(i - 1, None, <<>>, u.blocks[i])
                     EXCEPT !.erase_counter_header =
                                u.blocks[i].erase_counter_header]
            ELSE u.blocks[i]]]

delete_volume_blocks(u, volume_id) ==
    [u EXCEPT !.blocks =
        [i \in 1..Len(u.blocks) |->
            IF InVolume(u.blocks[i], volume_id)
            THEN FreshBlock(i - 1, None, <<>>, u.blocks[i])
            ELSE u.blocks[i]]]

\* ceil(a / b) for a >= 0, b > 0
Ceil(a, b) == (a + b - 1) \div b

\* calculate_logical_erase_blocks(image, data_size): the dict as the
\* sequence of its items <<index, block_data>>, in insertion order.
RECURSIVE CalculateLebs(_, _, _, _)
CalculateLebs(image, data_size, index, blocks) ==
    IF index >= blocks THEN <<>>
    ELSE LET start_position == index * data_size
             end_position == start_position + data_size
             block_data == Slice(image, start_position, end_position)
             rest == CalculateLebs(image, data_size, index + 1, blocks)
         IN  IF block_data /= Fill(255, data_size)
             THEN << <<index, block_data>> >> \o rest
             ELSE rest

calculate_logical_erase_blocks(image, data_size) ==
    CalculateLebs(image, data_size, 0, Ceil(BLen(image), data_size))

\* A variant of put_volume_blocks that also refuses the chunks when the
\* free blocks are just as many.
PutVolumeBlocksNoSpare(u, volume_id, bs) ==
    LET lebs == calculate_logical_erase_blocks(bs, u.data_size)
        free_blocks == get_free_blocks(u)
    IN  IF Len(free_blocks) <= Len(lebs) THEN [ok |-> FALSE, u |-> u]
        ELSE
        LET placed(i) == {k \in 1..Len(lebs) : free_blocks[k] = i - 1}
        IN  [ok |-> TRUE,
             u |-> [u EXCEPT !.blocks =
                [i \in 1..Len(u.blocks) |->
                    IF placed(i) = {} THEN u.blocks[i]
                    ELSE LET k == CHOOSE k \in placed(i) : TRUE
                         IN  FreshBlock(i - 1,
                                 Some(VolumeIdentifierHeader(volume_id,
                                                             lebs[k][1])),
                                 lebs[k][2], u.blocks[i])]]]

\* A variant of put_volume_blocks that takes the blocks of the container
\* in order, whether they are free or not.
PutOverwriting(u, volume_id, bs) ==
    LET lebs == calculate_logical_erase_blocks(bs, u.data_size)
    IN  IF Len(u.blocks) < Len(lebs) THEN [ok |-> FALSE, u |-> u]
        ELSE [ok |-> TRUE,
              u |-> [u EXCEPT !.blocks =
                 [i \in 1..Len(u.blocks) |->
                     IF i > Len(lebs) THEN u.blocks[i]
                     ELSE FreshBlock(i - 1,
                              Some(VolumeIdentifierHeader(volume_id,
                                                          lebs[i][1])),
                              lebs[i][2], u.blocks[i])]]]

\* put_volume_blocks: [ok |-> the value returned, u |-> the container
\* after the call].
put_volume_blocks(u, volume_id, bs) ==
    LET lebs == calculate_logical_erase_blocks(bs, u.data_size)
        free_blocks == get_free_blocks(u)
    IN  IF Len(free_blocks) < Len(lebs) THEN [ok |-> FALSE, u |-> u]
        ELSE
        LET placed(i) == {k \in 1..Len(lebs) : free_blocks[k] = i - 1}
        IN  [ok |-> TRUE,
             u |-> [u EXCEPT !.blocks =
                [i \in 1..Len(u.blocks) |->
                    IF placed(i) = {} THEN u.blocks[i]
                    ELSE LET k == CHOOSE k \in placed(i) : TRUE
                         IN  FreshBlock(i - 1,
                                 Some(VolumeIdentifierHeader(volume_id,
                                                             lebs[k][1])),
                                 lebs[k][2], u.blocks[i])]]]

\* get_volume(volume_table_record): [ok |-> TRUE, v |-> bytes], or
\* [ok |-> FALSE] when it raises.
RECURSIVE ReadLebs(_, _, _, _)
ReadLebs(u, logical_erase_blocks, block_id, reserved_pebs) ==
    IF block_id >= reserved_pebs THEN [ok |-> TRUE, v |-> <<>>]
    ELSE LET rest == ReadLebs(u, logical_erase_blocks, block_id + 1,
                              reserved_pebs)
             here == IF block_id \in DOMAIN logical_erase_blocks
                     THEN PebData(logical_erase_blocks[block_id])
                     ELSE [ok |-> TRUE, v |-> Fill(255, u.data_size)]
         IN  IF ~here.ok \/ ~rest.ok THEN [ok |-> FALSE]
             ELSE [ok |-> TRUE, v |-> Concat(here.v, rest.v)]

get_volume(u, volume_table_record) ==
    LET logical_erase_blocks ==
            get_logical_erase_blocks(u, volume_table_record.volume_id)
    IN  IF ~logical_erase_blocks.ok THEN [ok |-> FALSE]
        ELSE ReadLebs(u, logical_erase_blocks.v, 0,
                 volume_table_record.reserved_physical_erase_blocks)

\* UnsortedBlockImages.to_bytes: [ok |-> TRUE, v |-> bytes], or
\* [ok |-> FALSE] when a block's to_bytes raises.
RECURSIVE BlocksToBytes(_)
BlocksToBytes(blocks) ==
    IF blocks = <<>> THEN [ok |-> TRUE, v |-> <<>>]
    ELSE LET here == PebToBytes(Head(blocks))
             rest == BlocksToBytes(Tail(blocks))
         IN  IF ~here.ok \/ ~rest.ok THEN [ok |-> FALSE]
             ELSE [ok |-> TRUE, v |-> Concat(here.v, rest.v)]

UbiToBytes(u) == BlocksToBytes(u.blocks)


-----------------------------------------------------------------------------
(* DeviceImage.                                                            *)

DeviceImage(header, image) == [header |-> header, image |-> image]

\* DeviceImage.from_data(data): [ok |-> TRUE, v |-> device image], or
\* ReadError when a read runs past the end of data.
DeviceImageFromData(bs) ==
    LET hd == ReadFields(bs, 0, "dih", DeviceImageHeaderFields)
    IN  IF ~hd.ok THEN ReadError
        ELSE LET header == FromFields(hd.f, DeviceImageHeaderFields)
             IN  IF header.header_size + header.image_size > BLen(bs)
                 THEN ReadError
                 ELSE [ok |-> TRUE,
                       v |-> DeviceImage(header,
                                 Slice(bs, header.header_size,
                                       header.header_size
                                           + header.image_size))]

\* DeviceImage.to_bytes
DeviceImageToBytes(d) ==
    LET result == Token("dih", ToFields(d.header, DeviceImageHeaderFields))
    IN  Join(<< result,
                Fill(255, d.header.header_size - BLen(result)),
                d.image >>)

get_image_sha1(d) == SHA1(d.image)

is_image_valid(d) == SHA1(d.image) = d.header.image_sha1

refresh_image_sha1(d) ==
    [d EXCEPT !.header.image_sha1 = get_image_sha1(d)]

\* A variant of DeviceImage.put that keeps the image from the start
\* position on after the data.
PutKeepingTail(d, bs, position) ==
    LET image_start_position == position - d.header.header_size
        image_end_position == image_start_position + BLen(bs)
        start_data == SliceTo(d.image, image_start_position)
        end_data == IF image_end_position < BLen(d.image)
                    THEN SliceFrom(d.image, image_start_position)
                    ELSE <<>>
    IN  [d EXCEPT !.image = Join(<<start_data, bs, end_data>>)]

\* DeviceImage.put(data, position)
put(d, bs, position) ==
    LET image_start_position == position - d.header.header_size
        image_end_position == image_start_position + BLen(bs)
        start_data == SliceTo(d.image, image_start_position)
        end_data == IF image_end_position < BLen(d.image)
                    THEN SliceFrom(d.image, image_end_position)
                    ELSE <<>>
    IN  [d EXCEPT !.image = Join(<<start_data, bs, end_data>>)]

-----------------------------------------------------------------------------
(* Boot arguments.  The U-Boot environment blob is the one run of kind     *)
(* "env" with fields <<length, base, fdt, kernel, ramdisk>>: the values of *)
(* the keys ending in _loadaddr, _loadaddr_fdt, _loadaddr_kernel and       *)
(* _loadaddr_ramdisk.                                                      *)

RECURSIVE FindEnv(_)
FindEnv(bs) ==
    IF bs = <<>> THEN [ok |-> FALSE]
    ELSE IF Head(bs).k = "env" /\ Head(bs).o = 0
            /\ Head(bs).n = PatLen("env", Head(bs).f)
    THEN [ok |-> TRUE, f |-> Head(bs).f]
    ELSE FindEnv(Tail(bs))

\* get_boot_arguments(data): [ok |-> FALSE] when data.index raises.
get_boot_arguments(bs) == FindEnv(bs)

get_base_position(boot_arguments) == boot_arguments.f[2]

get_flattened_device_tree_position(boot_arguments) ==
    boot_arguments.f[3] - get_base_position(boot_arguments)

get_kernel_position(boot_arguments) ==
    boot_arguments.f[4] - get_base_position(boot_arguments)

get_ramdisk_position(boot_arguments) ==
    boot_arguments.f[5] - get_base_position(boot_arguments)


-----------------------------------------------------------------------------
(* The write driver.                                                       *)

\* No file at output_path.
NoFile == [exists |-> FALSE, content |-> <<>>]
File(bs) == [exists |-> TRUE, content |-> bs]

\* get_volume_table_record(ubi, volume_id): [ok |-> FALSE] when
\* get_volume_table_records raises; found = FALSE stands for None.
get_volume_table_record(u, volume_id) ==
    LET volume_table_records == get_volume_table_records(u)
    IN  IF ~volume_table_records.ok THEN [ok |-> FALSE]
        ELSE LET hits == {i \in 1..Len(volume_table_records.v) :
                    volume_table_records.v[i].volume_id = volume_id}
             IN  IF hits = {} THEN [ok |-> TRUE, found |-> FALSE]
                 ELSE [ok |-> TRUE, found |-> TRUE,
                       v |-> volume_table_records.v[
                                CHOOSE i \in hits : \A j \in hits : i <= j]]

TargetPosition(boot_arguments, target) ==
    CASE target = "fdt" -> get_flattened_device_tree_position(boot_arguments)
      [] target = "kernel" -> get_kernel_position(boot_arguments)
      [] target = "ramdisk" -> get_ramdisk_position(boot_arguments)

Outcome(status, installed, file, u) ==
    [status |-> status, installed |-> installed, file |-> file, ubi |-> u]

\* write_image from the call of put_volume_blocks on: the result is not
\* tested, the output file is opened and written part by part.
WriteOutput(bs, u, volume_id, image) ==
    Value({
        Value({
            IF ~encoded.ok
            THEN Outcome("raised", installed.ok,
                         File(SliceTo(bs, u.start_position)), installed.u)
            ELSE Outcome("written", installed.ok,
                         File(Join(<<SliceTo(bs, u.start_position),
                                     encoded.v,
                                     SliceFrom(bs, u.end_position)>>)),
                         installed.u)
            : encoded \in {UbiToBytes(installed.u)} })
        : installed \in {put_volume_blocks(u, volume_id, image)} })

\* write_image once the volume table record is found: the volume is read,
\* the update is put at the target's position, the SHA-1 refreshed and the
\* volume's blocks deleted.
WriteVolume(bs, u, target_record, volume_id, target, update_data) ==
    Value({
        IF ~volume.ok THEN Outcome("raised", FALSE, NoFile, u)
        ELSE Value({
            IF ~device_image.ok THEN Outcome("raised", FALSE, NoFile, u)
            ELSE Value({
                IF ~boot_arguments.ok
                THEN Outcome("raised", FALSE, NoFile, u)
                ELSE WriteOutput(bs, delete_volume_blocks(u, volume_id),
                         volume_id,
                         DeviceImageToBytes(refresh_image_sha1(
                             put(device_image.v, update_data,
                                 TargetPosition(boot_arguments, target)))))
                : boot_arguments \in {get_boot_arguments(bs)} })
            : device_image \in {DeviceImageFromData(volume.v)} })
        : volume \in {get_volume(u, target_record)} })

\* write_image(image_path, volume_id, target, update_path, output_path),
\* bs the bytes of the input file and update_data those of the update
\* file.  status is "raised" when an exception ends the run, "unknown"
\* when the volume is not found (the error is logged and the function
\* returns) and "written" when the function runs to its end; installed is
\* the value returned by put_volume_blocks.
write_image(bs, volume_id, target, update_data) ==
    Value({
        IF ~decoded.ok THEN Outcome("raised", FALSE, NoFile, <<>>)
        ELSE Value({
            IF ~target_record.ok
            THEN Outcome("raised", FALSE, NoFile, decoded.v)
            ELSE IF ~target_record.found
            THEN Outcome("unknown", FALSE, NoFile, decoded.v)
            ELSE WriteVolume(bs, decoded.v, target_record.v, volume_id,
                             target, update_data)
            : target_record \in {get_volume_table_record(decoded.v,
                                                         volume_id)} })
        : decoded \in {UbiFromData(bs)} })


-----------------------------------------------------------------------------
(* Input images.  A raw NAND dump is built from the encodings of its       *)
(* parts; every size below is in bytes.                                    *)

BlockSize == 128 * 1024
VidOffset == 512

\* Bounds of the model.
MaxFree == 1
MaxOps == 2

DataOffsets == {1024, 2048, 4096}

\* An erase counter header as found on flash; valid = FALSE stores a CRC
\* that does not match.
RawEch(data_offset, image_sequence, valid) ==
    LET h == refresh_header_crc32(
                 [magic_signature |-> UBI_EC_HDR_MAGIC,
                  ubi_version |-> 1,
                  erase_counter |-> 3,
                  volume_identifier_header_offset |-> VidOffset,
                  data_offset |-> data_offset,
                  image_sequence |-> image_sequence,
                  header_crc32 |-> 0],
                 EraseCounterHeaderFields)
    IN  IF valid THEN h
        ELSE [h EXCEPT !.header_crc32 = (h.header_crc32 + 1) % 65536]

\* A volume identifier header as found on flash.
RawVih(volume_id, leb, volume_type, used, sequence_number) ==
    LET h == VolumeIdentifierHeader(volume_id, leb)
    IN  refresh_header_crc32(
            [h EXCEPT !.volume_type = volume_type,
                      !.data_size = used,
                      !.sequence_number = sequence_number],
            VolumeIdentifierHeaderFields)

\* The bytes of one physical erase block: the headers, the two gaps filled
\* with the byte gap, and the payload, padded with 0xFF to the block size.
RawPeb(ech, vih, gap, payload) ==
    LET a == Token("ech", ToFields(ech, EraseCounterHeaderFields))
        b == Concat(a, Fill(gap,
                 ech.volume_identifier_header_offset - BLen(a)))
        c == Concat(b, IF vih = None
                       THEN Fill(255,
                                FieldsWidth(VolumeIdentifierHeaderFields))
                       ELSE Token("vih", ToFields(vih[1],
                                VolumeIdentifierHeaderFields)))
        d == Concat(c, Fill(gap, ech.data_offset - BLen(c)))
        e == Concat(d, payload)
    IN  Concat(e, Fill(255, BlockSize - BLen(e)))

\* A volume table record as found on flash.
RawVtr(reserved_pebs, volume_type, name) ==
    LET f == <<reserved_pebs, 1, 0, volume_type, 0, 4, name, 0, 0>>
    IN  Token("vtr", Append(f, generate_crc32(f)))

\* count empty volume table slots.
EmptySlots(count) ==
    LET f == <<0, 0, 0, 0, 0, 0, 0, 0, 0, EmptyRecordCrc32>>
    IN  << Run("vtr", f, 0, count * FieldsWidth(VolumeTableRecordFields)) >>

\* The layout volume's block: records for volume 0 (the device image,
\* dynamic) and volume 1 (of the given type), the other slots empty.
LayoutVolumeId == UBI_INTERNAL_VOL_START
VtblPayload(reserved0, reserved1, type1) ==
    Join(<< RawVtr(reserved0, DYNAMIC, 10),
            RawVtr(reserved1, type1, 11),
            EmptySlots(VTBL_SLOTS - 2) >>)


\* The device image of volume 0: a header of HeaderSize bytes (the record
\* and 0xFF padding) and an image made of a flattened device tree, a
\* kernel and a RAMdisk, here runs of the bytes 70, 75 and 82.
\* DEVICE_MAGIC is 0x8E73ED8A without its top bit, to fit a 32-bit signed
\* integer; no operation of the model tests it.
DEVICE_MAGIC == 242478474
HeaderSize == 2 * FieldsWidth(DeviceImageHeaderFields)
FdtSize == 4 * 1024
RamdiskSize == 1024
KernelSize(data_size) == data_size - FdtSize

RawImage(data_size) ==
    Join(<< Fill(70, FdtSize), Fill(75, KernelSize(data_size)),
            Fill(82, RamdiskSize) >>)

RawDeviceImage(data_size) ==
    LET image == RawImage(data_size)
    IN  Join(<< Token("dih", <<DEVICE_MAGIC, HeaderSize, BLen(image),
                               SHA1(image)>>),
                Fill(255, HeaderSize - FieldsWidth(DeviceImageHeaderFields)),
                image >>)

\* The U-Boot environment of the dump: the load addresses of the three
\* parts, relative to the base address LoadBase.
EnvSize == 256
LoadBase == 1024 * 1024
RawEnv(data_size) ==
    Token("env", <<EnvSize, LoadBase,
                   LoadBase + HeaderSize,
                   LoadBase + HeaderSize + FdtSize,
                   LoadBase + HeaderSize + FdtSize + KernelSize(data_size)>>)

\* The blocks that carry volume 1, by variant of the dump: one block; a
\* static block; a worn volume (for LEB 0 a block of an older image with
\* the highest sequence number and two blocks of the current image with
\* the same sequence number, for LEB 1 an older and a newer copy); a block
\* whose erase counter header fails its CRC.
Variants == {"plain", "static", "worn", "badech"}

Current == 5

Volume1Blocks(variant, d) ==
    LET ds == BlockSize - d
        peb(image_sequence, valid, type, used, leb, seq, byte) ==
            RawPeb(RawEch(d, image_sequence, valid),
                   Some(RawVih(1, leb, type, used, seq)), 255,
                   Fill(byte, IF type = STATIC THEN used ELSE ds))
    IN  CASE variant = "plain" ->
               << peb(Current, TRUE, DYNAMIC, 0, 0, 1, 66) >>
          [] variant = "static" ->
               << peb(Current, TRUE, STATIC, 1024, 0, 1, 66) >>
          [] variant = "worn" ->
               << peb(Current - 1, TRUE, DYNAMIC, 0, 0, 9, 90),
                  peb(Current, TRUE, DYNAMIC, 0, 0, 1, 66),
                  peb(Current, TRUE, DYNAMIC, 0, 1, 1, 68),
                  peb(Current, TRUE, DYNAMIC, 0, 0, 1, 67),
                  peb(Current, TRUE, DYNAMIC, 0, 1, 2, 69) >>
          [] variant = "badech" ->
               << peb(Current, FALSE, DYNAMIC, 0, 0, 1, 66) >>

FreePeb(d) == RawPeb(RawEch(d, Current, TRUE), None, 255, <<>>)

RECURSIVE FreePebs(_, _)
FreePebs(d, count) ==
    IF count = 0 THEN <<>> ELSE Concat(FreePeb(d), FreePebs(d, count - 1))

\* The UBI region: the layout volume's block, the two blocks of volume 0,
\* the blocks of volume 1 and nfree free blocks.
RawRegion(d, nfree, variant) ==
    LET ds == BlockSize - d
        device == RawDeviceImage(ds)
        leb(n) == RawPeb(RawEch(d, Current, TRUE),
                         Some(RawVih(0, n, DYNAMIC, 0, n + 1)), 255,
                         Slice(device, n * ds, (n + 1) * ds))
        layout == RawPeb(RawEch(d, Current, TRUE),
                         Some(RawVih(LayoutVolumeId, 0, DYNAMIC, 0, 0)), 255,
                         VtblPayload(2, 2, IF variant = "static"
                                           THEN STATIC ELSE DYNAMIC))
    IN  Join(<<layout, leb(0), leb(1)>>
             \o Volume1Blocks(variant, d)
             \o <<FreePebs(d, nfree)>>)

\* A NAND dump: boot data with the environment, the UBI region, and a
\* tail of other data.
RawDump(d, nfree, variant) ==
    Join(<< Fill(0, 2048), RawEnv(BlockSize - d), Fill(0, 1024),
            RawRegion(d, nfree, variant),
            Fill(238, 4096) >>)

Dumps ==
    {RawDump(d, nfree, variant) :
        d \in DataOffsets, nfree \in 0..MaxFree, variant \in Variants}


-----------------------------------------------------------------------------
(* The container under its operations.  A run starts from the decoded      *)
(* container of a dump and applies delete_volume_blocks and                *)
(* put_volume_blocks, at most MaxOps times; the other operations read the  *)
(* container, leave their result in ret and end the run (they change       *)
(* nothing, so every container is still read in each of its states).       *)

VolumeIds == {0, 1}

\* The byte strings given to put_volume_blocks, by the container's
\* data_size: a full chunk and a short one; an empty (all 0xFF) chunk, a
\* full one and a short chunk of 0xFF; three full chunks.
PutData(data_size) ==
    { Fill(65, data_size + 100),
      Join(<<Fill(255, data_size), Fill(65, data_size), Fill(255, 100)>>),
      Fill(65, 3 * data_size) }

\* Orders of a list of n elements: the identity and the exchanges of two
\* elements.
Orders(n) ==
    {[k \in 1..n |-> IF k = i THEN j ELSE IF k = j THEN i ELSE k] :
        i \in 1..n, j \in 1..n}

Permute(xs, p) == [i \in 1..Len(xs) |-> xs[p[i]]]

NoDevice == <<>>

Init ==
    /\ data \in Dumps
    /\ ubi = UbiFromData(data).v
    /\ ret = [op |-> "from_data"]
    /\ output = NoFile
    /\ pc = "container"
    /\ dev = NoDevice
    /\ ops = 0

DeleteVolumeBlocks(volume_id) ==
    /\ pc = "container"
    /\ ops < MaxOps
    /\ ubi' = delete_volume_blocks(ubi, volume_id)
    /\ ret' = [op |-> "delete_volume_blocks", volume_id |-> volume_id,
               before |-> ubi]
    /\ ops' = ops + 1
    /\ UNCHANGED <<data, output, pc, dev>>

PutVolumeBlocks(volume_id, bs) ==
    /\ pc = "container"
    /\ ops < MaxOps
    /\ LET r == put_volume_blocks(ubi, volume_id, bs)
       IN  /\ ubi' = r.u
           /\ ret' = [op |-> "put_volume_blocks", volume_id |-> volume_id,
                      data |-> bs, ok |-> r.ok, before |-> ubi]
    /\ ops' = ops + 1
    /\ UNCHANGED <<data, output, pc, dev>>

GetVolume(record) ==
    /\ pc = "container"
    /\ ret' = [op |-> "get_volume", record |-> record,
               res |-> get_volume(ubi, record)]
    /\ pc' = "read"
    /\ UNCHANGED <<data, ubi, output, dev, ops>>

GetLogicalEraseBlocks(volume_id) ==
    /\ pc = "container"
    /\ ret' = [op |-> "get_logical_erase_blocks", volume_id |-> volume_id,
               res |-> get_logical_erase_blocks(ubi, volume_id)]
    /\ pc' = "read"
    /\ UNCHANGED <<data, ubi, output, dev, ops>>

\* prepare_physical_erase_blocks on the blocks of a volume, listed in the
\* order p.
PreparePhysicalEraseBlocks(volume_id, p) ==
    /\ pc = "container"
    /\ LET blocks == Permute(VolumeBlocks(ubi.blocks, volume_id), p)
       IN  ret' = [op |-> "prepare_physical_erase_blocks",
                   volume_id |-> volume_id, blocks |-> blocks,
                   res |-> prepare_physical_erase_blocks(blocks)]
    /\ pc' = "read"
    /\ UNCHANGED <<data, ubi, output, dev, ops>>

ToBytes ==
    /\ pc = "container"
    /\ ret' = [op |-> "to_bytes", res |-> UbiToBytes(ubi)]
    /\ pc' = "read"
    /\ UNCHANGED <<data, ubi, output, dev, ops>>

Records(u) ==
    LET t == get_volume_table_records(u)
    IN  IF t.ok THEN {t.v[i] : i \in 1..Len(t.v)} ELSE {}

Next ==
    \/ \E volume_id \in VolumeIds : DeleteVolumeBlocks(volume_id)
    \/ \E volume_id \in VolumeIds, bs \in PutData(ubi.data_size) :
          PutVolumeBlocks(volume_id, bs)
    \/ \E record \in Records(ubi) : GetVolume(record)
    \/ \E volume_id \in VolumeIds : GetLogicalEraseBlocks(volume_id)
    \/ \E volume_id \in VolumeIds :
          \E p \in Orders(Len(VolumeBlocks(ubi.blocks, volume_id))) :
              PreparePhysicalEraseBlocks(volume_id, p)
    \/ ToBytes

Spec == Init /\ [][Next]_vars


-----------------------------------------------------------------------------
(* Properties of the container operations (specification Spec).            *)

\* Indexes of the blocks of u whose VIH carries volume_id.
Carriers(u, volume_id) ==
    {i \in 1..Len(u.blocks) :
        /\ u.blocks[i].volume_identifier_header /= <<>>
        /\ u.blocks[i].volume_identifier_header[1].volume_id = volume_id}

ImageSequenceOf(u, i) == u.blocks[i].erase_counter_header.image_sequence
LebOf(u, i) ==
    u.blocks[i].volume_identifier_header[1].logical_erase_block_number
SequenceNumberOf(u, i) ==
    u.blocks[i].volume_identifier_header[1].sequence_number

\* Carriers with the highest image_sequence among the carriers.
Kept(u, volume_id) ==
    {i \in Carriers(u, volume_id) :
        \A j \in Carriers(u, volume_id) :
            ImageSequenceOf(u, j) <= ImageSequenceOf(u, i)}

\* C1: get_volume(r) returns exactly r.reserved_pebs * data_size bytes, and
\* every leb_number below reserved_pebs without a resolved PEB contributes
\* data_size bytes of 0xFF at its place.
C1_VolumeLength ==
    ret.op = "get_volume" =>
        LET n == ret.record.reserved_physical_erase_blocks
            ds == ubi.data_size
            resolved == {LebOf(ubi, i) : i \in Kept(ubi, ret.record.volume_id)}
        IN  /\ ret.res.ok
            /\ BLen(ret.res.v) = n * ds
            /\ \A leb \in (0..(n - 1)) \ resolved :
                  Slice(ret.res.v, leb * ds, (leb + 1) * ds) = Fill(255, ds)

\* C2: LEB resolution for a volume_id considers only the PEBs whose VIH
\* carries that volume_id, keeps those with the highest image_sequence among
\* them, and maps each leb_number to a kept PEB with the highest
\* sequence_number; a PEB with a lower image_sequence is never returned.
C2_Resolution ==
    (ret.op = "get_logical_erase_blocks" /\ ret.res.ok) =>
        LET kept == Kept(ubi, ret.volume_id)
            m == ret.res.v
        IN  /\ DOMAIN m = {LebOf(ubi, i) : i \in kept}
            /\ \A leb \in DOMAIN m :
                  \E i \in kept :
                     /\ m[leb] = ubi.blocks[i]
                     /\ LebOf(ubi, i) = leb
                     /\ \A j \in kept :
                           LebOf(ubi, j) = leb =>
                               SequenceNumberOf(ubi, j)
                                   <= SequenceNumberOf(ubi, i)

\* C2 witness: a resolution that left out a PEB of an older image whose
\* sequence_number is higher than that of the PEB returned for its LEB.
C2_Witness ==
    /\ ret.op = "get_logical_erase_blocks"
    /\ ret.res.ok
    /\ \E i \in Carriers(ubi, ret.volume_id) \ Kept(ubi, ret.volume_id) :
          /\ LebOf(ubi, i) \in DOMAIN ret.res.v
          /\ SequenceNumberOf(ubi, i) >
                ret.res.v[LebOf(ubi, i)].volume_identifier_header[1]
                    .sequence_number

\* C3: prepare_physical_erase_blocks gives the same logical contents (the
\* same leb_number keys, the same data per key) for every order of the list
\* of one volume's PEBs.
C3_OrderInsensitive ==
    (ret.op = "prepare_physical_erase_blocks" /\ ret.res.ok) =>
        LET listed == get_logical_erase_blocks(ubi, ret.volume_id).v
            shuffled == ret.res.v
        IN  /\ DOMAIN shuffled = DOMAIN listed
            /\ \A leb \in DOMAIN shuffled :
                  PebData(shuffled[leb]) = PebData(listed[leb])

\* The chunks of bs that put_volume_blocks is to place: the data_size
\* slices of bs that are not data_size bytes of 0xFF.
ChunksToPlace(bs, data_size) ==
    {i \in 0..(BLen(bs) \div data_size) :
        /\ i * data_size < BLen(bs)
        /\ Slice(bs, i * data_size, (i + 1) * data_size)
              /= Fill(255, data_size)}

C7_EncodeLength ==
    /\ \A i \in 1..Len(ubi.blocks) :
          /\ PebToBytes(ubi.blocks[i]).ok
          /\ BLen(PebToBytes(ubi.blocks[i]).v) = ubi.blocks[i].block_size
    /\ ret.op = "to_bytes" =>
          /\ ret.res.ok
          /\ BLen(ret.res.v) = Len(ubi.blocks) * ubi.block_size
          /\ BLen(ret.res.v) = ubi.end_position - ubi.start_position


-----------------------------------------------------------------------------
(* The write workflow (specification SpecWrite): one run of write_image on *)
(* a dump.                                                                 *)

NoContainer == <<>>

WriteVolumeIds == {0, 1, 2}
Targets == {"fdt", "kernel", "ramdisk"}

\* The update files: a payload of the size of the RAMdisk, a shorter one,
\* and one of a whole block.
UpdateData == {Fill(90, RamdiskSize), Fill(90, 100), Fill(90, BlockSize)}

InitWrite ==
    /\ data \in Dumps
    /\ ubi = NoContainer
    /\ ret = [op |-> "start"]
    /\ output = NoFile
    /\ pc = "start"
    /\ dev = NoDevice
    /\ ops = 0

WriteImage(volume_id, target, update_data) ==
    /\ pc = "start"
    /\ \E o \in {write_image(data, volume_id, target, update_data)} :
           /\ ubi' = o.ubi
           /\ output' = o.file
           /\ ret' = [op |-> "write_image", volume_id |-> volume_id,
                      target |-> target, update_data |-> update_data,
                      status |-> o.status, installed |-> o.installed]
    /\ pc' = "end"
    /\ UNCHANGED <<data, dev, ops>>

NextWrite ==
    \E volume_id \in WriteVolumeIds, target \in Targets,
       update_data \in UpdateData :
        WriteImage(volume_id, target, update_data)

SpecWrite == InitWrite /\ [][NextWrite]_vars

\* C4: an output file is created only if the volume install succeeded.
C4_OutputOnlyIfInstalled ==
    (pc = "end" /\ output.exists) => ret.installed

\* C6: for every successful write the output file equals
\* original[0..ubi_start] ++ rewritten_ubi_bytes ++ original[ubi_end..], has
\* the length of the input and equals the input outside
\* [ubi_start, ubi_end).
C6_OutputFrame ==
    (pc = "end" /\ ret.status = "written" /\ ret.installed) =>
        LET out == output.content
            start == ubi.start_position
            end == ubi.end_position
        IN  /\ out = Join(<<Take(data, start), UbiToBytes(ubi).v,
                            Drop(data, end)>>)
            /\ BLen(out) = BLen(data)
            /\ Take(out, start) = Take(data, start)
            /\ Drop(out, end) = Drop(data, end)


-----------------------------------------------------------------------------
(* Decoding blobs (specification SpecDecode): a blob is decoded by         *)
(* UnsortedBlockImages.from_data and the container encoded again.          *)

MaxBlocks == 3

ScanDataOffset == 2048

\* The blocks of a blob, by kind: a block of a dynamic volume that holds
\* zeroes; one of a
\* static volume that uses 1024 bytes; a static block with other bytes
\* than 0xFF after its 1024 bytes; a dynamic block whose header padding
\* holds zeroes, as the UBI driver writes it; a free block; an
\* erased block (0xFF only); a block whose erase counter header fails its
\* CRC; a block whose volume identifier header fails its CRC.
BlockKinds ==
    {"dynamic", "static", "stale", "gap", "free", "erased", "badech",
     "badvih"}

ScanBlock(kind) ==
    LET d == ScanDataOffset
        ds == BlockSize - d
        ech == RawEch(d, Current, TRUE)
        vih == RawVih(1, 0, DYNAMIC, 0, 1)
    IN  CASE kind = "dynamic" ->
               RawPeb(ech, Some(vih), 255, Fill(0, ds))
          [] kind = "static" ->
               RawPeb(ech, Some(RawVih(1, 0, STATIC, 1024, 1)), 255,
                      Fill(66, 1024))
          [] kind = "stale" ->
               RawPeb(ech, Some(RawVih(1, 0, STATIC, 1024, 1)), 255,
                      Concat(Fill(66, 1024), Fill(67, 512)))
          [] kind = "gap" ->
               RawPeb(ech, Some(vih), 0, Fill(66, ds))
          [] kind = "free" -> FreePeb(d)
          [] kind = "erased" -> Fill(255, BlockSize)
          [] kind = "badech" ->
               RawPeb(RawEch(d, Current, FALSE), Some(vih), 255,
                      Fill(66, ds))
          [] kind = "badvih" ->
               RawPeb(ech,
                      Some([vih EXCEPT !.header_crc32 =
                                (vih.header_crc32 + 1) % 65536]),
                      255, Fill(66, ds))

\* What precedes the blocks: nothing, other data, or other data in which
\* the four bytes "UBI#" occur once.
Prefixes ==
    { <<>>,
      Fill(0, 300),
      Join(<<Fill(0, 100), Token("lit", <<UBI_EC_HDR_MAGIC>>),
             Fill(0, 196)>>) }

\* What follows the blocks: other data, or a dump that ends 1000 bytes
\* before the end of the last block.
Endings == {"data", "cut"}

ScanImage(prefix, kinds, ending) ==
    LET region == Join([i \in 1..Len(kinds) |-> ScanBlock(kinds[i])])
        whole == Concat(prefix, region)
    IN  IF ending = "data" THEN Concat(whole, Fill(238, 50))
        ELSE Take(whole, BLen(whole) - 1000)

Blobs ==
    {ScanImage(prefix, kinds, ending) :
        prefix \in Prefixes,
        kinds \in UNION {[1..n -> BlockKinds] : n \in 0..MaxBlocks},
        ending \in Endings}

InitDecode ==
    /\ data \in Blobs
    /\ ubi = NoContainer
    /\ ret = [op |-> "start"]
    /\ output = NoFile
    /\ pc = "start"
    /\ dev = NoDevice
    /\ ops = 0

\* UnsortedBlockImages.from_data(data)
FromData ==
    /\ pc = "start"
    /\ \E decoded \in {UbiFromData(data)} :
           /\ ubi' = IF decoded.ok THEN decoded.v ELSE NoContainer
           /\ pc' = IF decoded.ok THEN "container" ELSE "failed"
           /\ ret' = [op |-> "from_data", ok |-> decoded.ok]
    /\ UNCHANGED <<data, output, dev, ops>>

NextDecode ==
    \/ FromData
    \/ ToBytes

SpecDecode == InitDecode /\ [][NextDecode]_vars


\* The PEB has an erase counter header and a volume identifier header
\* that both pass their CRC.
HeadersValid(block) ==
    /\ EchIsHeaderValid(block.erase_counter_header)
    /\ HasVidHeader(block)
    /\ VihIsHeaderValid(VidHeader(block))

\* The bytes of block i (1-based) in the blob and in the encoded region.
OriginalBlock(i) ==
    Slice(data, ubi.start_position + (i - 1) * ubi.block_size,
          ubi.start_position + i * ubi.block_size)

EncodedBlock(i) ==
    Slice(ret.res.v, (i - 1) * ubi.block_size, i * ubi.block_size)

\* C8: decoding the UBI region and encoding it again without a mutation
\* yields, for every PEB whose ECH and VIH are valid, the bytes of that PEB
\* in the original region.
C8_RoundTrip ==
    (pc = "read" /\ ret.op = "to_bytes" /\ ret.res.ok) =>
        \A i \in 1..Len(ubi.blocks) :
            HeadersValid(ubi.blocks[i]) =>
                EncodedBlock(i) = OriginalBlock(i)

\* The number of data bytes that block carries: for a static volume the
\* data_size of its volume identifier header.
UsedSize(block) ==
    IF VidHeader(block).volume_type = STATIC
       /\ VidHeader(block).data_size < BLen(block._data)
    THEN VidHeader(block).data_size
    ELSE BLen(block._data)

\* C8 (amended): decoding the UBI region and encoding it again without a
\* mutation yields, for every PEB whose ECH and VIH are valid, a block of
\* block_size bytes with the ECH, the VIH and the data (for a static
\* volume its first VIH.data_size bytes) of the original; every other byte
\* of the block is 0xFF.
C8_RoundTripHeadersAndData ==
    (pc = "read" /\ ret.op = "to_bytes" /\ ret.res.ok) =>
        \A i \in 1..Len(ubi.blocks) :
            HeadersValid(ubi.blocks[i]) =>
                LET block == ubi.blocks[i]
                    ech == FieldsWidth(EraseCounterHeaderFields)
                    vih == FieldsWidth(VolumeIdentifierHeaderFields)
                    vo == block.erase_counter_header
                               .volume_identifier_header_offset
                    do == block.erase_counter_header.data_offset
                    used == UsedSize(block)
                    old == OriginalBlock(i)
                    new == EncodedBlock(i)
                IN  /\ BLen(new) = ubi.block_size
                    /\ Slice(new, 0, ech) = Slice(old, 0, ech)
                    /\ Slice(new, ech, vo) = Fill(255, vo - ech)
                    /\ Slice(new, vo, vo + vih) = Slice(old, vo, vo + vih)
                    /\ Slice(new, vo + vih, do) = Fill(255, do - vo - vih)
                    /\ Slice(new, do, do + used) = Slice(old, do, do + used)
                    /\ Slice(new, do + used, ubi.block_size)
                           = Fill(255, ubi.block_size - do - used)

\* A region is encoded again in which a block with valid headers had
\* zeroes between its headers, and a static block bytes after its data.
C8_Witness ==
    /\ pc = "read" /\ ret.op = "to_bytes" /\ ret.res.ok
    /\ \E i \in 1..Len(ubi.blocks) :
           /\ HeadersValid(ubi.blocks[i])
           /\ VidHeader(ubi.blocks[i]).volume_type = DYNAMIC
           /\ EncodedBlock(i) /= OriginalBlock(i)
    /\ \E i \in 1..Len(ubi.blocks) :
           /\ HeadersValid(ubi.blocks[i])
           /\ VidHeader(ubi.blocks[i]).volume_type = STATIC
           /\ EncodedBlock(i) /= OriginalBlock(i)

\* The differences between consecutive offsets of "UBI#".
Strides(matches) ==
    [i \in 1..(Len(matches) - 1) |-> matches[i + 1] - matches[i]]

StrideCount(strides, size) ==
    Cardinality({i \in DOMAIN strides : strides[i] = size})

\* C9: from_data fails on a blob with fewer than two occurrences of
\* "UBI#"; when it succeeds, block_size is a most frequent difference
\* between consecutive occurrences, the start is the first occurrence whose
\* successor is block_size away, the number of blocks is the tally of that
\* stride plus one and the end is start + number of blocks * block_size.
C9_Locate ==
    LET matches == Matches(data, 0)
        strides == Strides(matches)
        tally == StrideCount(strides, ubi.block_size)
    IN  /\ (pc /= "start" /\ Len(matches) < 2) => pc = "failed"
        /\ pc \in {"container", "read"} =>
              /\ tally >= 1
              /\ \A i \in DOMAIN strides :
                     StrideCount(strides, strides[i]) <= tally
              /\ \E i \in DOMAIN strides :
                     /\ strides[i] = ubi.block_size
                     /\ \A j \in 1..(i - 1) : strides[j] /= ubi.block_size
                     /\ ubi.start_position = matches[i]
              /\ Len(ubi.blocks) = tally + 1
              /\ ubi.end_position =
                     ubi.start_position + Len(ubi.blocks) * ubi.block_size

\* A blob of three blocks is decoded whose first "UBI#" is not the start
\* of the region.
C9_Witness ==
    /\ pc = "container"
    /\ Len(ubi.blocks) = 3
    /\ ubi.start_position /= Matches(data, 0)[1]


-----------------------------------------------------------------------------
(* The device image under put (specification SpecDevice).                  *)

MaxPuts == 2

\* The bytes of a device image with an image of 100 bytes.
SmallDeviceImage ==
    LET image == Join(<<Fill(70, 40), Fill(75, 40), Fill(82, 20)>>)
    IN  Join(<< Token("dih", <<DEVICE_MAGIC, HeaderSize, BLen(image),
                               SHA1(image)>>),
                Fill(255, HeaderSize - FieldsWidth(DeviceImageHeaderFields)),
                image >>)

\* The start positions of put relative to the image, and the data put.
PutStarts == {-3, 0, 10, 95, 98, 100, 107}
PutBytes == {Fill(90, 2), Fill(90, 5), Fill(90, 200)}

InitDevice ==
    /\ data = SmallDeviceImage
    /\ dev = DeviceImageFromData(data).v
    /\ ubi = NoContainer
    /\ ret = [op |-> "from_data"]
    /\ output = NoFile
    /\ pc = "device"
    /\ ops = 0

\* DeviceImage.put(data, position)
Put(bs, position) ==
    /\ pc = "device"
    /\ ops < MaxPuts
    /\ dev' = put(dev, bs, position)
    /\ ret' = [op |-> "put", before |-> dev, data |-> bs,
               position |-> position]
    /\ ops' = ops + 1
    /\ UNCHANGED <<data, ubi, output, pc>>

\* DeviceImage.refresh_image_sha1()
RefreshImageSha1 ==
    /\ pc = "device"
    /\ dev' = refresh_image_sha1(dev)
    /\ ret' = [op |-> "refresh_image_sha1", before |-> dev]
    /\ UNCHANGED <<data, ubi, output, pc, ops>>

NextDevice ==
    \/ \E bs \in PutBytes, start \in PutStarts :
          Put(bs, dev.header.header_size + start)
    \/ RefreshImageSha1

SpecDevice == InitDevice /\ [][NextDevice]_vars

\* C10: put(data, position), with start = position - header_size and
\* end = start + len(data): when 0 <= start and end <= len(image) the image
\* keeps its length, its bytes [start, end) are data and the bytes outside
\* are unchanged; when end > len(image) (and 0 <= start) the new image is
\* image[0..start] ++ data.
C10_PutFrame ==
    ret.op = "put" =>
        LET image == ret.before.image
            start == ret.position - ret.before.header.header_size
            end == start + BLen(ret.data)
        IN  /\ (0 <= start /\ end <= BLen(image)) =>
                  /\ BLen(dev.image) = BLen(image)
                  /\ Take(Drop(dev.image, start), end - start) = ret.data
                  /\ Take(dev.image, start) = Take(image, start)
                  /\ Drop(dev.image, end) = Drop(image, end)
            /\ (0 <= start /\ end > BLen(image)) =>
                  dev.image = Concat(Take(image, start), ret.data)

\* A put inside the image has been followed by one that runs over its
\* end and drops the tail.
C10_Witness ==
    /\ ret.op = "put"
    /\ ops = 2
    /\ BLen(ret.before.image) = 100
    /\ ret.before.image /= DeviceImageFromData(data).v.image
    /\ LET start == ret.position - ret.before.header.header_size
       IN  /\ 0 <= start /\ start < 100
           /\ start + BLen(ret.data) > 100
           /\ BLen(dev.image) > 100

\* C11: a put whose start = position - header_size is negative or greater
\* than len(image) fails and leaves the image unchanged.
C11_PutOutOfRange ==
    ret.op = "put" =>
        LET start == ret.position - ret.before.header.header_size
        IN  (start < 0 \/ start > BLen(ret.before.image)) =>
                dev.image = ret.before.image

\* main() and the interpreter: the process ends with code 1 when an
\* exception escapes write_image and with code 0 when main returns.
ExitCode(status) == IF status = "raised" THEN 1 ELSE 0

\* C12: a write whose volume_id is not in the volume table reports the
\* unknown volume, creates no output file and ends with a non-zero exit
\* code.
C12_UnknownVolume ==
    (pc = "end" /\ ubi /= NoContainer
        /\ get_volume_table_records(ubi).ok
        /\ \A record \in Records(ubi) : record.volume_id /= ret.volume_id) =>
            /\ ret.status = "unknown"
            /\ ~output.exists
            /\ ExitCode(ret.status) /= 0

\* C13: get_volume of a record whose volume_id is carried by no PEB of the
\* container completes without error and returns reserved_pebs runs of
\* data_size bytes of 0xFF.
C13_ReadMissingVolume ==
    (ret.op = "get_volume" /\ Carriers(ubi, ret.record.volume_id) = {}) =>
        /\ ret.res.ok
        /\ ret.res.v =
               Fill(255, ret.record.reserved_physical_erase_blocks
                             * ubi.data_size)

\* C14: after delete_volume_blocks(v) no PEB has a VIH with volume_id v;
\* each replaced PEB has the default ECH, no VIH, the block_size and
\* data_size of the PEB it replaced and is in the free-block pool; every
\* other PEB is unchanged; the number and the order of the PEBs are
\* unchanged.
C14_Delete ==
    ret.op = "delete_volume_blocks" =>
        LET old == ret.before.blocks
            new == ubi.blocks
            free == get_free_blocks(ubi)
        IN  /\ Len(new) = Len(old)
            /\ \A i \in 1..Len(new) :
                  /\ new[i].block_id = i - 1
                  /\ ~InVolume(new[i], ret.volume_id)
                  /\ InVolume(old[i], ret.volume_id) =>
                        /\ new[i].erase_counter_header = EraseCounterHeader
                        /\ new[i].volume_identifier_header = None
                        /\ new[i].block_size = old[i].block_size
                        /\ new[i].data_size = old[i].data_size
                        /\ \E k \in 1..Len(free) : free[k] = i - 1
                  /\ ~InVolume(old[i], ret.volume_id) => new[i] = old[i]

\* A delete replaced some blocks of a container and left others, with a
\* VIH of another volume, in place.
C14_Witness ==
    /\ ret.op = "delete_volume_blocks"
    /\ \E i \in 1..Len(ubi.blocks) :
          InVolume(ret.before.blocks[i], ret.volume_id)
    /\ \E i \in 1..Len(ubi.blocks) :
          /\ HasVidHeader(ubi.blocks[i])
          /\ ubi.blocks[i] = ret.before.blocks[i]
    /\ \E i \in 1..Len(ubi.blocks) :
          /\ ~HasVidHeader(ret.before.blocks[i])

\* Chunk i of bs for a chunk size data_size (the last one may be shorter).
Chunk(bs, data_size, i) == Slice(bs, i * data_size, (i + 1) * data_size)

\* The chunks of bs that hold another byte than 0xFF.
DataChunks(bs, data_size) ==
    {i \in 0..(Ceil(BLen(bs), data_size) - 1) :
        LET chunk == Chunk(bs, data_size, i)
        IN  chunk /= Fill(255, BLen(chunk))}

\* C15: a successful put_volume_blocks(v, data) creates no PEB for a chunk
\* of 0xFF bytes only (the final, possibly shorter, chunk included) and
\* writes every other chunk i to one PEB with volume_id v and leb_number i
\* holding that chunk, the k-th placed chunk going to the k-th lowest free
\* block_id; no other PEB is touched.
C15_PutChunks ==
    (ret.op = "put_volume_blocks" /\ ret.ok) =>
        LET ds == ret.before.data_size
            chunks == DataChunks(ret.data, ds)
            free == get_free_blocks(ret.before)
            rank(i) == Cardinality({j \in chunks : j <= i})
            target(i) == free[rank(i)] + 1
        IN  /\ Cardinality(chunks) <= Len(free)
            /\ \A i \in chunks :
                  LET block == ubi.blocks[target(i)]
                  IN  /\ HasVidHeader(block)
                      /\ VidHeader(block).volume_id = ret.volume_id
                      /\ VidHeader(block).logical_erase_block_number = i
                      /\ block._data = Chunk(ret.data, ds, i)
            /\ \A n \in 1..Len(ubi.blocks) :
                  (\A i \in chunks : target(i) /= n) =>
                      ubi.blocks[n] = ret.before.blocks[n]

\* C16: a decoded block whose ECH fails its CRC has an empty payload and
\* no VIH attached, whatever the bytes at its vid_offset, and so is never
\* returned by LEB resolution.
C16_InvalidEch ==
    pc \in {"container", "read"} =>
        /\ \A i \in 1..Len(ubi.blocks) :
              ~EchIsHeaderValid(ubi.blocks[i].erase_counter_header) =>
                  /\ ubi.blocks[i]._data = <<>>
                  /\ ~HasVidHeader(ubi.blocks[i])
        /\ \A volume_id \in VolumeIds :
              LET lebs == get_logical_erase_blocks(ubi, volume_id)
              IN  lebs.ok =>
                      \A leb \in DOMAIN lebs.v :
                          EchIsHeaderValid(lebs.v[leb].erase_counter_header)

\* The VIH of a decoded block is invalid: none was kept (wrong magic), or
\* the one kept fails its CRC.
VihInvalid(block) ==
    ~HasVidHeader(block) \/ ~VihIsHeaderValid(VidHeader(block))

\* C17: a decoded block whose VIH is invalid (wrong magic, or right magic
\* and a failing header_crc32) is in the free-block pool, and is returned
\* neither by LEB resolution nor among the internal volume blocks that the
\* volume table is read from.
C17_InvalidVihIsFree ==
    pc \in {"container", "read"} =>
        /\ \A i \in 1..Len(ubi.blocks) :
              VihInvalid(ubi.blocks[i]) =>
                  \E j \in 1..Len(get_free_blocks(ubi)) :
                      get_free_blocks(ubi)[j] = i - 1
        /\ \A volume_id \in VolumeIds :
              LET lebs == get_logical_erase_blocks(ubi, volume_id)
              IN  lebs.ok =>
                      \A leb \in DOMAIN lebs.v : ~VihInvalid(lebs.v[leb])
        /\ \A i \in 1..Len(get_internal_volume_blocks(ubi)) :
              ~VihInvalid(get_internal_volume_blocks(ubi)[i])

\* The container as decoded, before any operation.
Decoded == UbiFromData(data).v

\* The last operation was put_volume_blocks(v, ...) on the container that
\* delete_volume_blocks(v) makes of the decoded one.
Rewritten ==
    /\ ret.op = "put_volume_blocks"
    /\ ret.before = delete_volume_blocks(Decoded, ret.volume_id)

\* C18: after delete_volume_blocks(v) and put_volume_blocks(v, data),
\* whether the install succeeded or not, get_volume for the record of every
\* other volume w returns what it returned before, and
\* get_volume_table_records returns the same records.
C18_OtherVolumesIntact ==
    Rewritten =>
        /\ get_volume_table_records(ubi) = get_volume_table_records(Decoded)
        /\ \A record \in Records(Decoded) :
              record.volume_id /= ret.volume_id =>
                  get_volume(ubi, record) = get_volume(Decoded, record)

C18_Witness ==
    /\ Rewritten
    /\ ret.ok
    /\ ubi /= ret.before
    /\ Carriers(Decoded, ret.volume_id) /= {}
    /\ \E record \in Records(Decoded) :
          /\ record.volume_id /= ret.volume_id
          /\ get_volume(Decoded, record).ok
          /\ get_volume(Decoded, record).v /=
                 Fill(255, BLen(get_volume(Decoded, record).v))

\* bs followed by 0xFF up to size bytes.
Padded(bs, size) == Concat(bs, Fill(255, size - BLen(bs)))

\* C19: after delete_volume_blocks(r.volume_id) and a successful
\* put_volume_blocks(r.volume_id, D) with len(D) at most
\* r.reserved_physical_erase_blocks * data_size, get_volume(r) returns D
\* followed by 0xFF up to that size.
C19_InstallThenRead ==
    (Rewritten /\ ret.ok) =>
        \A record \in Records(ubi) :
            LET size == record.reserved_physical_erase_blocks * ubi.data_size
            IN  (record.volume_id = ret.volume_id /\ BLen(ret.data) <= size)
                    => /\ get_volume(ubi, record).ok
                       /\ get_volume(ubi, record).v = Padded(ret.data, size)

\* C20: after put and refresh_image_sha1 on a decoded device image,
\* header.image_size is the length of the image, and decoding the bytes of
\* to_bytes gives the same image; after refresh_image_sha1 the decoded
\* image is valid.
C20_ImageSize ==
    ret.op \in {"put", "refresh_image_sha1"} =>
        /\ dev.header.image_size = BLen(dev.image)
        /\ LET decoded == DeviceImageFromData(DeviceImageToBytes(dev))
           IN  /\ decoded.ok
               /\ decoded.v.image = dev.image
               /\ ret.op = "refresh_image_sha1" => is_image_valid(decoded.v)

====
